---- MODULE Spec2Model ----
(***************************************************************************)
(* Feed ingestion of the product management service.                       *)
(*                                                                         *)
(*   backend/products/utils.py   get_text, get_float_text, get_attribute   *)
(*   backend/products/core.py    handle_uploaded_file,                     *)
(*                               create_product_instance,                  *)
(*                               notify_admins_for_products,               *)
(*                               notify_failure_to_admins                  *)
(*   backend/products/views.py   upload_products                           *)
(*   backend/products/models.py  Product (column constraints)              *)
(*                                                                         *)
(* An XML element is a record [present, hasText, text]: find() returned    *)
(* an element or None, and the element's text is a string or None.  A text *)
(* is kept as the sequence of its whitespace-separated tokens, which is    *)
(* what str.split() yields; a text without tokens is whitespace only, or   *)
(* the empty string when the record's field empty is set.  The field       *)
(* attrib is the element's attribute dictionary.                           *)
(* An Optional value is a record [isNone, text, empty].                    *)
(***************************************************************************)
EXTENDS Integers, Sequences, FiniteSets, TLC

(* ------------------------------ bounds -------------------------------- *)

\* Longest document (number of <item> nodes under channel).
MaxItems == 3
\* Largest number of admin users (is_superuser and is_staff) in the directory.
MaxAdmins == 2
\* Most token keys generated in one run.
MaxKeys == 3
\* Most whitespace-separated tokens in a text an accessor is called on.
MaxTokens == 2

(* ----------------------- XML elements and texts ------------------------ *)

\* An attribute dictionary without entries.
NoAttrib == [a \in {} |-> <<>>]

Absent == [present |-> FALSE, hasText |-> FALSE, text |-> <<>>,
           empty |-> FALSE, attrib |-> NoAttrib]
Empty == [present |-> TRUE, hasText |-> FALSE, text |-> <<>>,
          empty |-> FALSE, attrib |-> NoAttrib]
El(tokens) == [present |-> TRUE, hasText |-> TRUE, text |-> tokens,
               empty |-> FALSE, attrib |-> NoAttrib]
\* An element whose text was set to the empty string.  The parser never
\* builds one (the text of <a></a> is None); a caller can.
EmptyText == [present |-> TRUE, hasText |-> TRUE, text |-> <<>>,
              empty |-> TRUE, attrib |-> NoAttrib]
\* The same element carrying the attributes of the dictionary attrs.
WithAttrib(element, attrs) == [element EXCEPT !.attrib = attrs]

NoneT == [isNone |-> TRUE, text |-> <<>>, empty |-> FALSE]
Some(t) == [isNone |-> FALSE, text |-> t, empty |-> FALSE]
\* The empty string.
EmptyStr == [isNone |-> FALSE, text |-> <<>>, empty |-> TRUE]

\* Python truthiness of an Optional[str]: None and the empty string are
\* falsy.
Truthy(opt) == ~opt.isNone /\ ~opt.empty

\* A reader that falls back to the default on every text without content.
GetTextNonEmpty(element, default) ==
    IF element.present /\ element.hasText /\ element.text # <<>>
    THEN Some(element.text)
    ELSE default

\* utils.get_text: the text whenever it is not None, the empty string
\* included.
get_text(element, default) ==
    IF element.present /\ element.hasText
    THEN IF element.empty THEN EmptyStr ELSE Some(element.text)
    ELSE default

\* utils.get_attribute: element.attrib.get(attribute, default) on an
\* element, the default on None.
get_attribute(element, attribute, default) ==
    IF element.present /\ attribute \in DOMAIN element.attrib
    THEN Some(element.attrib[attribute])
    ELSE default

\* Literals float() accepts, with their value in hundredths.
FloatLiterals == {"199.99", "9.50", "5", "0", "-1"}
ParseFloat(tok) ==
    CASE tok = "199.99" -> 19999
      [] tok = "9.50" -> 950
      [] tok = "5" -> 500
      [] tok = "0" -> 0
      [] tok = "-1" -> -100

\* Literals int() accepts.
IntLiterals == {"5", "0", "-1"}
ParseInt(tok) ==
    CASE tok = "5" -> 5
      [] tok = "0" -> 0
      [] tok = "-1" -> -1

\* A computed value or the exception raised instead.
Val(v) == [exc |-> "none", val |-> v]
Raise(e) == [exc |-> e, val |-> NoneT]

\* A number reader that falls back to the default on text it cannot parse.
GetFloatTextOrDefault(element, default) ==
    IF element.present /\ element.hasText /\ element.text # <<>>
       /\ Head(element.text) \in FloatLiterals
    THEN Val(Some(<<ParseFloat(Head(element.text))>>))
    ELSE Val(default)

\* utils.get_float_text: float(element.text.split()[0]) when the element has
\* text, the default otherwise.  A number is an Optional whose text is <<n>>.
get_float_text(element, default) ==
    IF element.present /\ element.hasText /\ ~element.empty
    THEN IF element.text = <<>> THEN Raise("IndexError")
         ELSE IF Head(element.text) \in FloatLiterals
              THEN Val(Some(<<ParseFloat(Head(element.text))>>))
              ELSE Raise("ValueError")
    ELSE Val(default)

\* A quantity reader that falls back to 0 on text it cannot read.
PyIntLenient(opt) ==
    IF Len(opt.text) = 1 /\ Head(opt.text) \in IntLiterals
    THEN Val(ParseInt(Head(opt.text)))
    ELSE Val(0)

\* int(s): surrounding whitespace is stripped, anything else must be one
\* integer literal.
PyInt(opt) ==
    IF Len(opt.text) = 1 /\ Head(opt.text) \in IntLiterals
    THEN Val(ParseInt(Head(opt.text)))
    ELSE Raise("ValueError")

\* A comparison that does not fold case.
LowerIdentity(tok) == tok

\* str.lower() on the tokens the model uses.
Lower(tok) ==
    CASE tok \in {"yes", "Yes", "YES", "yEs"} -> "yes"
      [] OTHER -> tok

(* --------------------------- catalog (Product) ------------------------- *)

\* Product.objects.filter(id=product_id).exists()
Exists(cat, product_id) == \E rec \in cat : rec.id = product_id

\* Columns declared without null=True: the INSERT fails when one is NULL.
RequiredColumns == {"id", "title", "price", "gender"}

\* A table whose id column is not a key: only a NULL makes the INSERT fail.
InsertFailsOnNullOnly(cat, cand) == \E c \in RequiredColumns : cand[c].isNone

\* Product.objects.create: one INSERT.  It fails (IntegrityError) on a NULL
\* in a NOT NULL column and on a primary key that is already present; it
\* never touches a row that exists.  Neither the gender choices nor the sign
\* of quantity is a database constraint.
InsertFails(cat, cand) ==
    \/ \E c \in RequiredColumns : cand[c].isNone
    \/ Exists(cat, cand.id)

\* Model.save() in place of create(): an UPDATE of the row with that primary
\* key when there is one, an INSERT otherwise.
ObjectsSave(cat, cand) ==
    IF \E c \in RequiredColumns : cand[c].isNone
    THEN [exc |-> "IntegrityError", table |-> cat]
    ELSE [exc |-> "none", table |-> {rec \in cat : rec.id # cand.id} \cup {cand}]

\* Product(**fields) without save(): an instance is built and no row is
\* written.
ObjectsBuild(cat, cand) == [exc |-> "none", table |-> cat]

\* Product.objects.create(**fields): the exception raised, and the table
\* afterwards.
ObjectsCreate(cat, cand) ==
    IF InsertFails(cat, cand)
    THEN [exc |-> "IntegrityError", table |-> cat]
    ELSE [exc |-> "none", table |-> cat \cup {cand}]

\* DecimalField to_representation: the number as a fixed-point string.
DecimalString(opt) ==
    IF opt.isNone THEN NoneT ELSE Some(<<"decimal">> \o opt.text)

\* ProductSerializer(product_instance).data
Serialize(rec) ==
    [rec EXCEPT !.price = DecimalString(rec.price),
                !.sale_price = DecimalString(rec.sale_price)]

(* ------------------------------ item mapper ---------------------------- *)

\* x or d: d when x is None or the empty string.
Or(opt, d) == IF Truthy(opt) THEN opt ELSE d

\* A count reader that falls back to 0 on text it cannot convert.
ReadCountOrZero(element) ==
    PyIntLenient(Or(get_text(element, Some(<<"0">>)), Some(<<"0">>)))

\* int(get_text(element, "0") or "0"): quantity and additional_images_count.
ReadCount(element) == PyInt(Or(get_text(element, Some(<<"0">>)), Some(<<"0">>)))

\* The keyword arguments create_product_instance builds for one item, or the
\* exception the first failing conversion raises (in the order of the code).
\* title stands for the NOT NULL text columns and gender is read like them.
MapItem(item) ==
    LET product_id == get_text(item.id, NoneT)
        title == get_text(item.title, NoneT)
        price == get_float_text(item.price, NoneT)
        sale_price == get_float_text(item.sale_price, NoneT)
        gender == get_text(item.gender, NoneT)
        quantity == ReadCount(item.quantity)
        additional_images_count == ReadCount(item.additional_images_count)
        adult_str == get_text(item.adult, Some(<<"no">>))
        adult == IF Truthy(adult_str)
                 THEN Len(adult_str.text) = 1 /\ Lower(Head(adult_str.text)) = "yes"
                 ELSE FALSE
    IN  IF price.exc # "none" THEN Raise(price.exc)
        ELSE IF sale_price.exc # "none" THEN Raise(sale_price.exc)
        ELSE IF quantity.exc # "none" THEN Raise(quantity.exc)
        ELSE IF additional_images_count.exc # "none"
             THEN Raise(additional_images_count.exc)
        ELSE Val([id |-> product_id, title |-> title, price |-> price.val,
                  sale_price |-> sale_price.val, gender |-> gender,
                  quantity |-> quantity.val, adult |-> adult,
                  additional_images_count |-> additional_images_count.val])

\* create_product_instance against the table cat: the exception raised by
\* the mapping or by the INSERT ("none" when it returns), the created row and
\* the table afterwards.
create_product_instance(item, cat) ==
    LET m == MapItem(item)
    IN  IF m.exc # "none"
        THEN [exc |-> m.exc, row |-> NoneT, table |-> cat]
        ELSE LET c == ObjectsCreate(cat, m.val)
             IN  [exc |-> c.exc, row |-> m.val, table |-> c.table]

(* ------------------------------ documents ------------------------------ *)

MkItem(id, title, price, quantity) ==
    [id |-> id, title |-> title, price |-> price, sale_price |-> Absent,
     gender |-> El(<<"unisex">>), quantity |-> quantity, adult |-> Absent,
     additional_images_count |-> Absent]

\* The items documents are built from: two well-formed items with the same
\* id and different field values, a well-formed item with another id, an
\* item without its required title, an item with a non-numeric price, and an
\* item without an id.
ItemA1 == MkItem(El(<<"p1">>), El(<<"t1">>), El(<<"199.99">>), El(<<"5">>))
ItemA2 == MkItem(El(<<"p1">>), El(<<"t2">>), El(<<"9.50", "USD">>), Absent)
ItemB1 == MkItem(El(<<"p2">>), El(<<"t1">>), El(<<"199.99">>), Empty)
ItemNoTitle == MkItem(El(<<"p2">>), Absent, El(<<"9.50">>), El(<<"5">>))
ItemBadPrice == MkItem(El(<<"p3">>), El(<<"t1">>), El(<<"abc">>), El(<<"5">>))
ItemNoId == MkItem(Empty, El(<<"t2">>), El(<<"9.50">>), El(<<"0">>))
\* Items for the numeric fields: a non-numeric quantity (under the id of
\* ItemA1), a price of whitespace only, a sale_price element without text and
\* one with a number.
ItemBadQty == [ItemA1 EXCEPT !.quantity = El(<<"abc">>)]
ItemBlankPrice == [ItemA1 EXCEPT !.id = El(<<"n1">>), !.price = El(<<>>)]
ItemEmptySale == [ItemA1 EXCEPT !.id = El(<<"n2">>), !.sale_price = Empty]
ItemSale == [ItemA1 EXCEPT !.id = El(<<"n3">>), !.sale_price = El(<<"5">>)]
\* Items for the adult flag: the spellings of yes, other texts, an element
\* without text and no element (ItemB1).
ItemAdult(id, adult) == [ItemA1 EXCEPT !.id = El(<<id>>), !.adult = adult]
\* An item without an id whose price is not a number either.
ItemNoIdBadPrice == [ItemNoId EXCEPT !.price = El(<<"abc">>)]
\* Items for the two counts: quantity and additional_images_count absent,
\* without text, an integer, a negative integer, a word, a decimal number
\* and two integers.
ItemCount(id, quantity, images) ==
    [ItemA1 EXCEPT !.id = El(<<id>>), !.quantity = quantity,
                   !.additional_images_count = images]
\* Items for gender: the three choices of the model, another word, a choice
\* in another case, and no element.
ItemGender(id, gender) == [ItemA1 EXCEPT !.id = El(<<id>>), !.gender = gender]
\* A document lists its items by name.
Items == {"A1", "A2", "B1", "NoTitle", "BadPrice", "NoId"}
NumericItems == {"A1", "A2", "BadPrice", "BadQty", "BlankPrice", "EmptySale", "Sale"}
AdultItems == {"B1", "Adult_yes", "Adult_Yes", "Adult_YES", "Adult_yEs", "Adult_no",
               "Adult_true", "Adult_yes_please", "Adult_blank", "Adult_empty"}
NoIdItems == {"NoId", "NoIdBadPrice", "A1"}
CountItems == {"Qty_absent", "Qty_none", "Qty_5", "Qty_neg", "Qty_abc", "Qty_decimal",
               "Qty_two", "Img_none", "Img_5", "Img_abc", "Img_decimal"}
GenderItems == {"Gender_male", "Gender_female", "Gender_unisex", "Gender_alien",
                "Gender_Male", "Gender_absent", "Gender_none"}
ItemOf(name) ==
    CASE name = "A1" -> ItemA1
      [] name = "A2" -> ItemA2
      [] name = "B1" -> ItemB1
      [] name = "NoTitle" -> ItemNoTitle
      [] name = "BadPrice" -> ItemBadPrice
      [] name = "NoId" -> ItemNoId
      [] name = "BadQty" -> ItemBadQty
      [] name = "BlankPrice" -> ItemBlankPrice
      [] name = "EmptySale" -> ItemEmptySale
      [] name = "Sale" -> ItemSale
      [] name = "Adult_yes" -> ItemAdult("a1", El(<<"yes">>))
      [] name = "Adult_Yes" -> ItemAdult("a2", El(<<"Yes">>))
      [] name = "Adult_YES" -> ItemAdult("a3", El(<<"YES">>))
      [] name = "Adult_yEs" -> ItemAdult("a4", El(<<"yEs">>))
      [] name = "Adult_no" -> ItemAdult("a5", El(<<"no">>))
      [] name = "Adult_true" -> ItemAdult("a6", El(<<"true">>))
      [] name = "Adult_yes_please" -> ItemAdult("a7", El(<<"yes", "please">>))
      [] name = "Adult_blank" -> ItemAdult("a8", El(<<>>))
      [] name = "Adult_empty" -> ItemAdult("a9", Empty)
      [] name = "NoIdBadPrice" -> ItemNoIdBadPrice
      [] name = "Qty_absent" -> ItemCount("q1", Absent, Absent)
      [] name = "Qty_none" -> ItemCount("q2", Empty, Absent)
      [] name = "Qty_5" -> ItemCount("q3", El(<<"5">>), Absent)
      [] name = "Qty_neg" -> ItemCount("q4", El(<<"-1">>), Absent)
      [] name = "Qty_abc" -> ItemCount("q5", El(<<"abc">>), Absent)
      [] name = "Qty_decimal" -> ItemCount("q6", El(<<"9.50">>), Absent)
      [] name = "Qty_two" -> ItemCount("q7", El(<<"5", "0">>), Absent)
      [] name = "Img_none" -> ItemCount("i1", El(<<"5">>), Empty)
      [] name = "Img_5" -> ItemCount("i2", Absent, El(<<"5">>))
      [] name = "Img_abc" -> ItemCount("i3", El(<<"5">>), El(<<"abc">>))
      [] name = "Img_decimal" -> ItemCount("i4", El(<<"5">>), El(<<"9.50">>))
      [] name = "Gender_male" -> ItemGender("g1", El(<<"male">>))
      [] name = "Gender_female" -> ItemGender("g2", El(<<"female">>))
      [] name = "Gender_unisex" -> ItemGender("g3", El(<<"unisex">>))
      [] name = "Gender_alien" -> ItemGender("g4", El(<<"alien">>))
      [] name = "Gender_Male" -> ItemGender("g5", El(<<"Male">>))
      [] name = "Gender_absent" -> ItemGender("g6", Absent)
      [] name = "Gender_none" -> ItemGender("g7", Empty)

SeqsUpTo(S, n) == UNION {[1..k -> S] : k \in 0..n}

\* An uploaded file: its name, whether ET.parse accepts it, and the item
\* nodes root.findall("./channel/item") then yields.  NoFile is
\* request.FILES.get("file") returning None.
NoFile == [given |-> FALSE, name |-> "", wellformed |-> FALSE, items |-> <<>>]
WellFormed(d) == [given |-> TRUE, name |-> "feed.xml", wellformed |-> TRUE, items |-> d]
Malformed == [given |-> TRUE, name |-> "feed.xml", wellformed |-> FALSE, items |-> <<>>]
Files == {WellFormed(d) : d \in SeqsUpTo(Items, MaxItems)} \cup {Malformed}

\* The documents of uploads that overlap in time: they share ids, with equal
\* and with different field values, alone and beside other items.
RaceDocs == {<<"A1">>, <<"A2">>, <<"A2", "B1">>, <<"NoId", "A1">>}
ConcFiles == {WellFormed(d) : d \in RaceDocs}

\* One-item documents that exercise the numeric fields and the adult flag.
NumericFiles == {WellFormed(<<n>>) : n \in NumericItems}
AdultFiles == {WellFormed(<<n>>) : n \in AdultItems}
\* Documents in which items without an id stand beside a well-formed item.
NoIdFiles == {WellFormed(d) : d \in SeqsUpTo(NoIdItems, MaxItems)}
\* One-item documents that exercise the two counts and gender.
CountFiles == {WellFormed(<<n>>) : n \in CountItems}
GenderFiles == {WellFormed(<<n>>) : n \in GenderItems}

\* CustomUser.objects.filter(is_superuser=True, is_staff=True): the admins'
\* email addresses, in the order the query returns them.
AdminLists == {[i \in 1..n |-> i] : n \in 0..MaxAdmins}
\* The directories in which one admin has no email address: 0 stands for the
\* empty address.
BlankAdminLists ==
    {[a EXCEPT ![i] = 0] : <<a, i>> \in {<<b, k>> \in AdminLists \X (1..MaxAdmins) : k <= Len(b)}}

\* The upload requests the server may be serving at once.
Requests == {"u1", "u2"}

(* -------------------------------- state -------------------------------- *)

VARIABLES
    catalog,      \* the Product table: a set of rows
    admins,       \* the admin directory, as the all_admins query returns it
    pc,           \* where each request is in upload_products
    file,         \* the file each request carries
    pos,          \* handle_uploaded_file: index of the item being processed
    existing,     \* existing_product_ids
    problematic,  \* problematic_product_ids
    created,      \* product_instances_list
    ni, nj,       \* dispatcher loops: index of the admin and of the product
    error,        \* the exception upload_products caught, "" when none
    queue,        \* payloads the broker accepted from each request, in order
    rejected,     \* payloads whose enqueue raised (the error log)
    tasks,        \* the broker's message for each accepted payload, in order
    response,     \* the response each request returned
    cat0,         \* history: the Product table when the request began
    outcomes,     \* history: what became of each item processed so far
    tokens,       \* authtoken table: the key of each user's token, 0 when none
    minted,       \* number of token keys generated so far
    revoked,      \* history: the keys of the tokens deleted so far
    reply,        \* the last response of login, logout or the protected view
    call,         \* an accessor of utils.py called on its own: its arguments
    ret           \* what that call returned or raised

sessions == <<tokens, minted, revoked, reply>>
probe == <<call, ret>>

vars == <<catalog, admins, pc, file, pos, existing, problematic, created,
          ni, nj, error, queue, rejected, tasks, response, cat0, outcomes,
          tokens, minted, revoked, reply, call, ret>>

NoResponse == [status |-> 0, body |-> [pending |-> TRUE]]

\* The message send_notification.send hands to the broker: not yet
\* processed, never retried.  attempts counts the runs of the actor and
\* delivered the runs in which the mail transport accepted the mail.
NewMessage ==
    [state |-> "queued", retries |-> 0, attempts |-> 0, expired |-> FALSE,
     delivered |-> 0]

\* The registered accounts (CustomUser rows) with their passwords.
Users == {"msenay", "staff"}
PasswordOf(u) == IF u = "msenay" THEN "strongpassword123" ELSE "staffpass"

\* No auth request has been answered yet.
NoReply == [endpoint |-> "none", user |-> "", key |-> 0, status |-> 0, token |-> 0]

\* Nothing stored, no request under way, nobody logged in.
InitRest ==
    /\ catalog = {}
    /\ pc = [r \in Requests |-> "idle"]
    /\ file = [r \in Requests |-> NoFile]
    /\ pos = [r \in Requests |-> 1]
    /\ existing = [r \in Requests |-> <<>>]
    /\ problematic = [r \in Requests |-> <<>>]
    /\ created = [r \in Requests |-> <<>>]
    /\ ni = [r \in Requests |-> 1]
    /\ nj = [r \in Requests |-> 1]
    /\ error = [r \in Requests |-> ""]
    /\ queue = [r \in Requests |-> <<>>]
    /\ rejected = [r \in Requests |-> <<>>]
    /\ tasks = [r \in Requests |-> <<>>]
    /\ response = [r \in Requests |-> NoResponse]
    /\ cat0 = [r \in Requests |-> {}]
    /\ outcomes = [r \in Requests |-> <<>>]
    /\ tokens = [u \in Users |-> 0]
    /\ minted = 0
    /\ revoked = {}
    /\ reply = NoReply

\* No accessor is being exercised on its own.
NoCall == [fn |-> "none"]
NoRet == [exc |-> "pending", val |-> NoneT]
InitProbe == call = NoCall /\ ret = NoRet

Init == admins \in AdminLists /\ InitRest /\ InitProbe

\* The same, in a directory where an admin has no email address.
InitBlank == admins \in BlankAdminLists /\ InitRest /\ InitProbe

(* ------------------------- handle_uploaded_file ------------------------ *)

\* A parser that accepts anything and finds no items in what it cannot read.
ParseNeverRaises(f) == FALSE

\* ET.parse(file) raises on a document that is not well-formed XML.
ParseRaises(f) == ~f.wellformed

\* The existence check left out: every item goes on to be created.
NeverExists(cat, product_id) == FALSE

\* Line 44: product_id and Product.objects.filter(id=product_id).exists()
AlreadyExists(cat, product_id) == Truthy(product_id) /\ Exists(cat, product_id)

\* list.insert(0, x)
ListPrepend(list, x) == <<x>> \o list

\* list.append
ListAppend(list, x) == Append(list, x)

\* "except ValueError" in its place.
CaughtValueError(exc) == exc = "ValueError"

\* "except Exception" around the mapping of one item: the exceptions it
\* catches.
Caught(exc) == TRUE

\* The loop abandoned at the first item that fails.
BreakAfterFailure(p, n) == n + 1

\* The item the loop turns to once an item's failure has been handled: the
\* except block falls through to the next iteration.
AfterFailure(p, n) == p + 1

ItemAt(r) == ItemOf(file[r].items[pos[r]])

\* An existence check against the ids fetched once, before the loop.
TableAtStart(r) == cat0[r]

\* The table the existence check of line 44 reads: the query is issued anew
\* for every item, so it sees the rows created earlier in the same run.
LiveTable(r) == catalog

\* A view that hands whatever it got to the ingestor.
FileNeverMissing(f) == FALSE

\* views.py 149-150: file = request.FILES.get("file"); if not file
FileMissing(f) == ~f.given

\* views.py 149-154: the request arrives; without a file it is answered at
\* once.
StartUpload(r, f) ==
    /\ pc[r] = "idle"
    /\ file' = [file EXCEPT ![r] = f]
    /\ cat0' = [cat0 EXCEPT ![r] = catalog]
    /\ IF ~FileMissing(f)
       THEN /\ pc' = [pc EXCEPT ![r] = "parse"]
            /\ UNCHANGED response
       ELSE /\ pc' = [pc EXCEPT ![r] = "responded"]
            /\ response' = [response EXCEPT ![r] =
                   [status |-> 400, body |-> [error |-> "No file provided"]]]
    /\ UNCHANGED <<catalog, admins, pos, existing, problematic, created, ni,
                   nj, error, queue, tasks, rejected, outcomes, sessions, probe>>

\* core.py 29-39: parse the document; a parse error is re-raised to
\* upload_products, whose handler starts the failure notifications.
ParseFile(r) ==
    /\ pc[r] = "parse"
    /\ IF ParseRaises(file[r])
       THEN /\ pc' = [pc EXCEPT ![r] = "notify_failure"]
            /\ error' = [error EXCEPT ![r] = "syntax error"]
       ELSE /\ pc' = [pc EXCEPT ![r] = "check"]
            /\ UNCHANGED error
    /\ UNCHANGED <<catalog, admins, file, pos, existing, problematic, created,
                   ni, nj, queue, tasks, rejected, response, cat0, outcomes,
                   sessions, probe>>

\* core.py 41-46: read the item's id and ask the catalog whether it exists.
CheckItem(r) ==
    /\ pc[r] = "check"
    /\ pos[r] <= Len(file[r].items)
    /\ LET product_id == get_text(ItemAt(r).id, NoneT)
       IN  IF AlreadyExists(LiveTable(r), product_id)
           THEN /\ existing' = [existing EXCEPT ![r] = ListAppend(@, product_id)]
                /\ outcomes' = [outcomes EXCEPT ![r] = Append(@, "existing")]
                /\ pos' = [pos EXCEPT ![r] = @ + 1]
                /\ UNCHANGED pc
           ELSE /\ pc' = [pc EXCEPT ![r] = "create"]
                /\ UNCHANGED <<existing, outcomes, pos>>
    /\ UNCHANGED <<catalog, admins, file, problematic, created, ni, nj, error,
                   queue, tasks, rejected, response, cat0, sessions, probe>>

\* A handler that reports every failed item, with or without an id.
ReportsEveryFailure(product_id) == TRUE

\* A handler that only logs a failed item.
ReportsNoFailure(product_id) == FALSE

\* core.py 55: if product_id, inside the except branch.
ReportsFailure(product_id) == Truthy(product_id)

\* core.py 48-58: map and create the item inside try/except.
CreateItem(r) ==
    /\ pc[r] = "create"
    /\ LET product_id == get_text(ItemAt(r).id, NoneT)
           res == create_product_instance(ItemAt(r), catalog)
       IN  IF res.exc = "none"
           THEN /\ catalog' = res.table
                /\ created' = [created EXCEPT ![r] = ListAppend(@, Serialize(res.row))]
                /\ outcomes' = [outcomes EXCEPT ![r] = Append(@, "created")]
                /\ pos' = [pos EXCEPT ![r] = @ + 1]
                /\ pc' = [pc EXCEPT ![r] = "check"]
                /\ UNCHANGED <<problematic, error>>
           ELSE IF Caught(res.exc)
           THEN /\ catalog' = res.table
                /\ IF ReportsFailure(product_id)
                   THEN /\ problematic' = [problematic EXCEPT ![r] = ListAppend(@, product_id)]
                        /\ outcomes' = [outcomes EXCEPT ![r] = Append(@, "problematic")]
                   ELSE /\ outcomes' = [outcomes EXCEPT ![r] = Append(@, "unreported")]
                        /\ UNCHANGED problematic
                /\ pos' = [pos EXCEPT ![r] = AfterFailure(@, Len(file[r].items))]
                /\ pc' = [pc EXCEPT ![r] = "check"]
                /\ UNCHANGED <<created, error>>
           ELSE /\ catalog' = res.table
                /\ error' = [error EXCEPT ![r] = res.exc]
                /\ pc' = [pc EXCEPT ![r] = "notify_failure"]
                /\ UNCHANGED <<created, problematic, outcomes, pos>>
    /\ UNCHANGED <<admins, file, existing, ni, nj, queue, tasks, rejected,
                   response, cat0, sessions, probe>>

\* core.py 60: the loop is over and the three lists are returned.
ReturnBatch(r) ==
    /\ pc[r] = "check"
    /\ pos[r] > Len(file[r].items)
    /\ pc' = [pc EXCEPT ![r] = "notify"]
    /\ UNCHANGED <<catalog, admins, file, pos, existing, problematic, created,
                   ni, nj, error, queue, tasks, rejected, response, cat0,
                   outcomes, sessions, probe>>

(* ------------------------ notification dispatcher ---------------------- *)

\* core.py 187-196
SuccessPayload(r, admin, product) ==
    [status |-> "notify_success", admin_email |-> admin, user |-> r,
     file_name |-> file[r].name, product |-> product,
     existing_product_ids |-> existing[r],
     problematic_product_ids |-> problematic[r]]

\* core.py 216-223
FailurePayload(r, admin, err) ==
    [status |-> "notify_failure", admin_email |-> admin, user |-> r,
     file_name |-> file[r].name, error |-> err]

\* A dispatcher that leaves out the admins without an email address.
HasEmail(admin) == admin # 0

\* core.py 185-198 and 214-227: a payload is built and sent for every admin
\* of the query; admin.email is copied into it and never tested.
Addressed(admin) == TRUE

\* The inner loop cut short: one product for each admin.
OnePerAdmin(i, j, m) == <<i + 1, 1>>

\* The nested loops of notify_admins_for_products: the (admin, product) pair
\* after pair (i, j) when there are m products.
NextPair(i, j, m) == IF j < m THEN <<i, j + 1>> ELSE <<i + 1, 1>>

\* The failure loop without its try/except: a send that raises ends it.
AbortOnRaise(k, ok, n) == IF ok THEN k + 1 ELSE n + 1

\* notify_failure_to_admins wraps each send in try/except and goes on to the
\* next of the n admins whether or not the send raised.
NextAdmin(k, ok, n) == k + 1

\* core.py 185-198: one send_notification.send.  The broker either accepts
\* the payload or the send raises; nothing in notify_admins_for_products
\* catches that, so it reaches the handler of upload_products (views.py
\* 160-162), which starts the failure notifications.
NotifySuccess(r, ok) ==
    /\ pc[r] = "notify"
    /\ ni[r] <= Len(admins)
    /\ created[r] # <<>>
    /\ LET payload == SuccessPayload(r, admins[ni[r]], created[r][nj[r]])
           next == NextPair(ni[r], nj[r], Len(created[r]))
       IN  IF ~Addressed(admins[ni[r]])
           THEN /\ ni' = [ni EXCEPT ![r] = next[1]]
                /\ nj' = [nj EXCEPT ![r] = next[2]]
                /\ UNCHANGED <<pc, error, rejected, queue, tasks>>
           ELSE IF ok
           THEN /\ queue' = [queue EXCEPT ![r] = Append(@, payload)]
                /\ tasks' = [tasks EXCEPT ![r] = Append(@, NewMessage)]
                /\ ni' = [ni EXCEPT ![r] = next[1]]
                /\ nj' = [nj EXCEPT ![r] = next[2]]
                /\ UNCHANGED <<pc, error, rejected>>
           ELSE /\ rejected' = [rejected EXCEPT ![r] = Append(@, payload)]
                /\ error' = [error EXCEPT ![r] = "broker error"]
                /\ pc' = [pc EXCEPT ![r] = "notify_failure"]
                /\ ni' = [ni EXCEPT ![r] = 1]
                /\ nj' = [nj EXCEPT ![r] = 1]
                /\ UNCHANGED <<queue, tasks>>
    /\ UNCHANGED <<catalog, admins, file, pos, existing, problematic, created,
                   response, cat0, outcomes, sessions, probe>>

\* A 201 body that reports the batch.
SummaryBody(r) ==
    [message |-> "Products uploaded successfully", created |-> Len(created[r]),
     existing |-> existing[r], problematic |-> problematic[r]]

\* views.py 165: the body of the 201 response.
CreatedBody(r) == [message |-> "Products uploaded successfully"]

\* views.py 159-165: the dispatcher returned.
RespondCreated(r) ==
    /\ pc[r] = "notify"
    /\ (ni[r] > Len(admins) \/ created[r] = <<>>)
    /\ response' = [response EXCEPT ![r] = [status |-> 201, body |-> CreatedBody(r)]]
    /\ pc' = [pc EXCEPT ![r] = "responded"]
    /\ UNCHANGED <<catalog, admins, file, pos, existing, problematic, created,
                   ni, nj, error, queue, tasks, rejected, cat0, outcomes,
                   sessions, probe>>

\* core.py 214-227: one failure payload; a send that raises is caught and
\* logged.
NotifyFailure(r, ok) ==
    /\ pc[r] = "notify_failure"
    /\ ni[r] <= Len(admins)
    /\ LET payload == FailurePayload(r, admins[ni[r]], error[r])
       IN  IF ~Addressed(admins[ni[r]])
           THEN UNCHANGED <<queue, tasks, rejected>>
           ELSE IF ok
           THEN /\ queue' = [queue EXCEPT ![r] = Append(@, payload)]
                /\ tasks' = [tasks EXCEPT ![r] = Append(@, NewMessage)]
                /\ UNCHANGED rejected
           ELSE /\ rejected' = [rejected EXCEPT ![r] = Append(@, payload)]
                /\ UNCHANGED <<queue, tasks>>
    /\ ni' = [ni EXCEPT ![r] = NextAdmin(@, ok, Len(admins))]
    /\ UNCHANGED <<catalog, admins, pc, file, pos, existing, problematic,
                   created, nj, error, response, cat0, outcomes, sessions, probe>>

\* views.py 163: the error response.
RespondError(r) ==
    /\ pc[r] = "notify_failure"
    /\ ni[r] > Len(admins)
    /\ response' = [response EXCEPT ![r] = [status |-> 400, body |-> [error |-> error[r]]]]
    /\ pc' = [pc EXCEPT ![r] = "responded"]
    /\ UNCHANGED <<catalog, admins, file, pos, existing, problematic, created,
                   ni, nj, error, queue, tasks, rejected, cat0, outcomes,
                   sessions, probe>>

\* The request is over; its slot serves the next one.
Finish(r) ==
    /\ pc[r] = "responded"
    /\ pc' = [pc EXCEPT ![r] = "idle"]
    /\ file' = [file EXCEPT ![r] = NoFile]
    /\ pos' = [pos EXCEPT ![r] = 1]
    /\ existing' = [existing EXCEPT ![r] = <<>>]
    /\ problematic' = [problematic EXCEPT ![r] = <<>>]
    /\ created' = [created EXCEPT ![r] = <<>>]
    /\ ni' = [ni EXCEPT ![r] = 1]
    /\ nj' = [nj EXCEPT ![r] = 1]
    /\ error' = [error EXCEPT ![r] = ""]
    /\ queue' = [queue EXCEPT ![r] = <<>>]
    /\ rejected' = [rejected EXCEPT ![r] = <<>>]
    /\ tasks' = [tasks EXCEPT ![r] = <<>>]
    /\ response' = [response EXCEPT ![r] = NoResponse]
    /\ cat0' = [cat0 EXCEPT ![r] = {}]
    /\ outcomes' = [outcomes EXCEPT ![r] = <<>>]
    /\ UNCHANGED <<catalog, admins, sessions, probe>>

(* ------------------------------ token sessions ------------------------- *)

\* What a login request may carry.
Usernames == Users \cup {"nonexistent"}
Passwords == {PasswordOf(u) : u \in Users} \cup {"wrongpassword"}

\* What a request to a protected endpoint may carry in its Authorization
\* header: 0 is a request without credentials, the others are token keys,
\* issued or not.
Credentials == 0..MaxKeys

\* views.py 70: authenticate(username=username, password=password)
authenticate(username, password) ==
    username \in Users /\ password = PasswordOf(username)

\* The user a "Token <key>" header authenticates: the owner of the token with
\* that key, "" when there is no such token or no header (tests.py 243-302).
TokenUser(tok, key) ==
    IF key # 0 /\ \E u \in Users : tok[u] = key
    THEN CHOOSE u \in Users : tok[u] = key
    ELSE ""

\* permission_classes([IsAuthenticated]) (views.py 85, 104)
IsAuthenticated(tok, key) == TokenUser(tok, key) # ""

\* A logout that leaves the token in place.
KeepToken(tok, u) == tok

\* views.py 98: request.user.auth_token.delete()
DeleteToken(tok, u) == [tok EXCEPT ![u] = 0]

\* views.py 51-81: login.  Token.objects.get_or_create returns the user's
\* token when there is one and creates one, with a key never used before,
\* otherwise.
Login(username, password) ==
    /\ IF authenticate(username, password)
       THEN IF tokens[username] # 0
            THEN /\ reply' = [endpoint |-> "login", user |-> username, key |-> 0,
                              status |-> 200, token |-> tokens[username]]
                 /\ UNCHANGED <<tokens, minted>>
            ELSE /\ minted < MaxKeys
                 /\ minted' = minted + 1
                 /\ tokens' = [tokens EXCEPT ![username] = minted + 1]
                 /\ reply' = [endpoint |-> "login", user |-> username, key |-> 0,
                              status |-> 200, token |-> minted + 1]
       ELSE /\ reply' = [endpoint |-> "login", user |-> username, key |-> 0,
                         status |-> IF username \in Users THEN 400 ELSE 404,
                         token |-> 0]
            /\ UNCHANGED <<tokens, minted>>
    /\ UNCHANGED <<catalog, admins, pc, file, pos, existing, problematic, created,
                   ni, nj, error, queue, tasks, rejected, response, cat0, outcomes,
                   revoked, probe>>

\* views.py 84-100: logout.
Logout(key) ==
    /\ IF IsAuthenticated(tokens, key)
       THEN /\ tokens' = DeleteToken(tokens, TokenUser(tokens, key))
            /\ revoked' = revoked \cup {key}
            /\ reply' = [endpoint |-> "logout", user |-> TokenUser(tokens, key),
                         key |-> key, status |-> 200, token |-> 0]
       ELSE /\ reply' = [endpoint |-> "logout", user |-> "", key |-> key,
                         status |-> 401, token |-> 0]
            /\ UNCHANGED <<tokens, revoked>>
    /\ UNCHANGED <<catalog, admins, pc, file, pos, existing, problematic, created,
                   ni, nj, error, queue, tasks, rejected, response, cat0, outcomes,
                   minted, probe>>

\* views.py 103-117: protected_view.
ProtectedView(key) ==
    /\ reply' = IF IsAuthenticated(tokens, key)
                THEN [endpoint |-> "protected", user |-> TokenUser(tokens, key),
                      key |-> key, status |-> 200, token |-> 0]
                ELSE [endpoint |-> "protected", user |-> "", key |-> key,
                      status |-> 401, token |-> 0]
    /\ UNCHANGED <<catalog, admins, pc, file, pos, existing, problematic, created,
                   ni, nj, error, queue, tasks, rejected, response, cat0, outcomes,
                   tokens, minted, revoked, probe>>

(* -------------------------- notification worker ------------------------ *)

\* tasks/product.py 38: the actor's max_retries (DRAMATIQ_TASK_MAX_RETRIES
\* unset).
max_retries == 5

\* send_email with an except clause that only logs.
SendEmailSwallows(ok) == "none"

\* tasks/product.py 17-34: the exception send_email lets out.  The SMTP
\* session either accepts the mail (ok) or raises, and the except clause
\* re-raises after logging.
send_email(ok) == IF ok THEN "none" ELSE "SMTPException"

\* A retry budget that is checked one failure too late.
RetriesExceededLate(retries) == retries > max_retries

\* The actor's retry policy (tasks/product.py 37-41): a message whose run
\* raised is failed for good once it has been retried max_retries times,
\* and re-enqueued with its retry count incremented otherwise.
RetriesExceeded(retries) == retries >= max_retries

\* A worker takes message k of those request r enqueued.  A message older
\* than max_age (tasks/product.py 40) is discarded without running the
\* actor.  Otherwise send_notification runs (tasks/product.py 42-75): it
\* builds the mail and calls send_email, whose exception, if any, leaves the
\* actor and is handled by the retry policy.
ProcessMessage(r, k, ok) ==
    /\ k \in 1..Len(tasks[r])
    /\ tasks[r][k].state = "queued"
    /\ LET t == tasks[r][k]
           exc == send_email(ok)
           ran == [t EXCEPT !.attempts = @ + 1,
                            !.delivered = @ + (IF ok THEN 1 ELSE 0)]
           after == IF t.expired THEN [t EXCEPT !.state = "dropped"]
                    ELSE IF exc = "none" THEN [ran EXCEPT !.state = "sent"]
                    ELSE IF RetriesExceeded(t.retries) THEN [ran EXCEPT !.state = "dropped"]
                    ELSE [ran EXCEPT !.retries = @ + 1]
       IN  tasks' = [tasks EXCEPT ![r][k] = after]
    /\ UNCHANGED <<catalog, admins, pc, file, pos, existing, problematic, created,
                   ni, nj, error, queue, rejected, response, cat0, outcomes,
                   sessions, probe>>

\* Time passes: a message still waiting becomes older than max_age
\* (tasks/product.py 40).
AgeOut(r, k) ==
    /\ k \in 1..Len(tasks[r])
    /\ tasks[r][k].state = "queued"
    /\ ~tasks[r][k].expired
    /\ tasks' = [tasks EXCEPT ![r][k].expired = TRUE]
    /\ UNCHANGED <<catalog, admins, pc, file, pos, existing, problematic, created,
                   ni, nj, error, queue, rejected, response, cat0, outcomes,
                   sessions, probe>>

(* --------------------------- accessors alone --------------------------- *)

\* Texts: every sequence of at most MaxTokens tokens, numeric or not.
TextTokens == {"199.99", "9.50", "0", "abc", "USD"}
Texts == UNION {[1..n -> TextTokens] : n \in 0..MaxTokens}

\* Attribute dictionaries: none, a content attribute with a value, one with
\* the empty string as its value, and an attribute of another name.
Attribs ==
    {NoAttrib, [a \in {"content"} |-> <<"v1">>], [a \in {"content"} |-> <<>>],
     [a \in {"href"} |-> <<"v2">>]}

\* Nodes: None, an element without text, one whose text is the empty
\* string, and one with each text.
TextNodes == {Absent, Empty, EmptyText} \cup {El(t) : t \in Texts}
AttribNodes == {Absent} \cup {WithAttrib(e, d) : e \in {Empty, El(<<"abc">>)}, d \in Attribs}

TextDefaults == {NoneT, Some(<<"d1">>)}
\* Numbers are in hundredths: None, 0.0 and 99.99.
FloatDefaults == {NoneT, Some(<<0>>), Some(<<9999>>)}

GetTextCalls ==
    {[fn |-> "get_text", element |-> e, attribute |-> "", default |-> d] :
        e \in TextNodes, d \in TextDefaults}
GetFloatTextCalls ==
    {[fn |-> "get_float_text", element |-> e, attribute |-> "", default |-> d] :
        e \in TextNodes, d \in FloatDefaults}
GetAttributeCalls ==
    {[fn |-> "get_attribute", element |-> e, attribute |-> a, default |-> d] :
        e \in AttribNodes, a \in {"content", "href"}, d \in TextDefaults}

InitUtils ==
    /\ admins = <<>>
    /\ InitRest
    /\ \/ call \in GetTextCalls
       \/ call \in GetFloatTextCalls
       \/ call \in GetAttributeCalls
    /\ ret = NoRet

\* utils.py 5-6
CallGetText ==
    /\ call.fn = "get_text" /\ ret.exc = "pending"
    /\ ret' = Val(get_text(call.element, call.default))
    /\ UNCHANGED <<catalog, admins, pc, file, pos, existing, problematic, created,
                   ni, nj, error, queue, rejected, tasks, response, cat0, outcomes,
                   sessions, call>>

\* utils.py 9-10
CallGetFloatText ==
    /\ call.fn = "get_float_text" /\ ret.exc = "pending"
    /\ ret' = get_float_text(call.element, call.default)
    /\ UNCHANGED <<catalog, admins, pc, file, pos, existing, problematic, created,
                   ni, nj, error, queue, rejected, tasks, response, cat0, outcomes,
                   sessions, call>>

\* utils.py 13-14
CallGetAttribute ==
    /\ call.fn = "get_attribute" /\ ret.exc = "pending"
    /\ ret' = Val(get_attribute(call.element, call.attribute, call.default))
    /\ UNCHANGED <<catalog, admins, pc, file, pos, existing, problematic, created,
                   ni, nj, error, queue, rejected, tasks, response, cat0, outcomes,
                   sessions, call>>

(* ---------------------------- specifications --------------------------- *)

\* The steps of a request that is under way, up to its response.
Serve(r) ==
    \/ ParseFile(r)
    \/ CheckItem(r)
    \/ CreateItem(r)
    \/ ReturnBatch(r)
    \/ \E ok \in BOOLEAN : NotifySuccess(r, ok)
    \/ RespondCreated(r)
    \/ \E ok \in BOOLEAN : NotifyFailure(r, ok)
    \/ RespondError(r)

Step(r) == Serve(r) \/ Finish(r)

\* No other request is being served, and r is the slot the server hands the
\* next request to.
Alone(r) ==
    /\ \A q \in Requests : pc[q] = "idle"
    /\ r = CHOOSE q \in Requests : TRUE

\* Uploads served one at a time.
Next ==
    \/ \E r \in Requests : Alone(r) /\ \E f \in Files \cup {NoFile} : StartUpload(r, f)
    \/ \E r \in Requests : Step(r)

Spec == Init /\ [][Next]_vars

\* Uploads served one at a time while an admin has no email address.
SpecBlank == InitBlank /\ [][Next]_vars

\* Uploads served concurrently: the steps of the requests interleave.
NextConc ==
    \/ \E r \in Requests : \E f \in ConcFiles : StartUpload(r, f)
    \/ \E r \in Requests : Step(r)

SpecConc == Init /\ [][NextConc]_vars

\* Uploads, one at a time, of the documents that exercise the numeric fields.
NextNumeric ==
    \/ \E r \in Requests : Alone(r) /\ \E f \in NumericFiles : StartUpload(r, f)
    \/ \E r \in Requests : Step(r)

SpecNumeric == Init /\ [][NextNumeric]_vars

\* Uploads, one at a time, of the documents that exercise the adult flag.
NextAdult ==
    \/ \E r \in Requests : Alone(r) /\ \E f \in AdultFiles : StartUpload(r, f)
    \/ \E r \in Requests : Step(r)

SpecAdult == Init /\ [][NextAdult]_vars

\* Uploads, one at a time, of the documents with items without an id.
NextNoId ==
    \/ \E r \in Requests : Alone(r) /\ \E f \in NoIdFiles : StartUpload(r, f)
    \/ \E r \in Requests : Step(r)

SpecNoId == Init /\ [][NextNoId]_vars

\* Uploads, one at a time, of the documents that exercise the two counts.
NextCount ==
    \/ \E r \in Requests : Alone(r) /\ \E f \in CountFiles : StartUpload(r, f)
    \/ \E r \in Requests : Step(r)

SpecCount == Init /\ [][NextCount]_vars

\* Uploads, one at a time, of the documents that exercise gender.
NextGender ==
    \/ \E r \in Requests : Alone(r) /\ \E f \in GenderFiles : StartUpload(r, f)
    \/ \E r \in Requests : Step(r)

SpecGender == Init /\ [][NextGender]_vars

\* The authentication endpoints.
NextAuth ==
    \/ \E username \in Usernames : \E password \in Passwords : Login(username, password)
    \/ \E key \in Credentials : Logout(key)
    \/ \E key \in Credentials : ProtectedView(key)

SpecAuth == Init /\ [][NextAuth]_vars

\* Uploads with the notification worker running beside them.  The documents
\* and the admin directory are small: what is explored is the life of each
\* message.  A request's record is kept until its messages are settled.
WorkerFiles == {WellFormed(<<"A1">>), WellFormed(<<"A1", "B1">>), Malformed}
Settled(r) == \A k \in 1..Len(tasks[r]) : tasks[r][k].state # "queued"
Worker == \E r \in Requests : \E k \in 1..Len(tasks[r]) : \E ok \in BOOLEAN :
              ProcessMessage(r, k, ok)

InitWorker == Init /\ Len(admins) <= 1

NextWorker ==
    \/ \E r \in Requests : Alone(r) /\ \E f \in WorkerFiles : StartUpload(r, f)
    \/ \E r \in Requests : Serve(r)
    \/ \E r \in Requests : Settled(r) /\ Finish(r)
    \/ Worker
    \/ \E r \in Requests : \E k \in 1..Len(tasks[r]) : AgeOut(r, k)

SpecWorker == InitWorker /\ [][NextWorker]_vars

\* The worker process polls the broker for as long as it runs: a message
\* that is waiting is eventually taken.
SpecWorkerFair == SpecWorker /\ WF_vars(Worker)

\* Each accessor of utils.py called once on a node and a default.
NextUtils == CallGetText \/ CallGetFloatText \/ CallGetAttribute

SpecUtils == InitUtils /\ [][NextUtils]_vars

(* ------------------------------ properties ----------------------------- *)

Ids(cat) == {rec.id : rec \in cat}
ItemId(name) == get_text(ItemOf(name).id, NoneT)
Doc(r) == file[r].items

\* The document of request r parsed.
Parsed(r) == file[r].given /\ file[r].wellformed

\* handle_uploaded_file has returned its three lists to request r.
BatchDone(r) ==
    /\ Parsed(r)
    /\ pc[r] \in {"notify", "notify_failure", "responded"}
    /\ pos[r] > Len(Doc(r))

\* An item that maps and is created when its id is not in the catalog.
ValidItem(name) == create_product_instance(ItemOf(name), {}).exc = "none"
RowOf(name) == MapItem(ItemOf(name)).val

\* C1 Idempotence of the existence check.  (a) A step that processes an item
\* whose id is in the catalog appends the id to the existing list, does not
\* go on to create_product_instance, and changes neither the catalog nor
\* the problematic and created lists.  (b) When every id of a document was
\* in the catalog before the run, the run leaves the catalog as it was and
\* returns existing = the document's ids, created = [] and problematic = [].
C1_ExistingStep(r) ==
    (/\ pc[r] = "check"
     /\ pos[r] <= Len(Doc(r))
     /\ Truthy(ItemId(Doc(r)[pos[r]]))
     /\ Exists(catalog, ItemId(Doc(r)[pos[r]]))
     /\ <<pc[r], pos[r]>> # <<pc'[r], pos'[r]>>)
    => /\ existing'[r] = Append(existing[r], ItemId(Doc(r)[pos[r]]))
       /\ pc'[r] = "check"
       /\ pos'[r] = pos[r] + 1
       /\ catalog' = catalog
       /\ problematic'[r] = problematic[r]
       /\ created'[r] = created[r]
C1_AllKnown(r) ==
    \A k \in 1..Len(Doc(r)) :
        Truthy(ItemId(Doc(r)[k])) /\ ItemId(Doc(r)[k]) \in Ids(cat0[r])
C1_Reingest(r) ==
    (BatchDone(r) /\ C1_AllKnown(r))
    => /\ catalog = cat0[r]
       /\ created[r] = <<>>
       /\ problematic[r] = <<>>
       /\ existing[r] = [k \in 1..Len(Doc(r)) |-> ItemId(Doc(r)[k])]
C1_Idempotent ==
    /\ [](\A r \in Requests : C1_Reingest(r))
    /\ [][\A r \in Requests : C1_ExistingStep(r)]_vars
\* A run over a non-empty document all of whose ids were already in the
\* catalog has returned.
C1_Witness ==
    \E r \in Requests :
        /\ BatchDone(r) /\ C1_AllKnown(r)
        /\ Len(Doc(r)) >= 2
        /\ Len(existing[r]) = Len(Doc(r))

\* C2 Partial-failure isolation without rollback.  The batches of the claim:
\* exactly one item is malformed, the others are valid and their ids are
\* distinct and not in the catalog when the run begins.
C2_Malformed(r) == {k \in 1..Len(Doc(r)) : ~ValidItem(Doc(r)[k])}
C2_Batch(r) ==
    /\ BatchDone(r)
    /\ Len(Doc(r)) >= 2
    /\ Cardinality(C2_Malformed(r)) = 1
    /\ \A k \in 1..Len(Doc(r)) \ C2_Malformed(r) :
          /\ ItemId(Doc(r)[k]) \notin Ids(cat0[r])
          /\ \A j \in 1..Len(Doc(r)) \ C2_Malformed(r) :
                j # k => ItemId(Doc(r)[j]) # ItemId(Doc(r)[k])
\* The snapshots of the valid items of a document, in document order.
C2_ValidSnapshots(d) ==
    LET F[i \in 0..Len(d)] ==
            IF i = 0 THEN <<>>
            ELSE IF ValidItem(d[i]) THEN Append(F[i - 1], Serialize(RowOf(d[i])))
            ELSE F[i - 1]
    IN  F[Len(d)]
C2_AllValidCreated(r) ==
    /\ \A k \in 1..Len(Doc(r)) \ C2_Malformed(r) : RowOf(Doc(r)[k]) \in catalog
    /\ created[r] = C2_ValidSnapshots(Doc(r))
\* The malformed item's id was in the catalog when the loop reached it: it
\* was there before the run, or a valid item before it in the document
\* carries it.
C2_KnownWhenReached(r, m) ==
    \/ ItemId(Doc(r)[m]) \in Ids(cat0[r])
    \/ \E k \in 1..(m - 1) : ValidItem(Doc(r)[k]) /\ ItemId(Doc(r)[k]) = ItemId(Doc(r)[m])
\* The claim as stated: problematic holds exactly the malformed item's id, or
\* nothing when that id is unreadable.
C2_Original ==
    \A r \in Requests : C2_Batch(r) =>
        /\ C2_AllValidCreated(r)
        /\ \A m \in C2_Malformed(r) :
              problematic[r] = IF Truthy(ItemId(Doc(r)[m]))
                               THEN <<ItemId(Doc(r)[m])>> ELSE <<>>
\* C2 as amended: all valid items are created and stay committed wherever the
\* malformed item stands; problematic holds exactly the malformed item's id,
\* or nothing when that id is unreadable or was already in the catalog when
\* the item was reached (the id is then reported as existing).
C2_Isolation ==
    \A r \in Requests : C2_Batch(r) =>
        /\ C2_AllValidCreated(r)
        /\ \A m \in C2_Malformed(r) :
              IF Truthy(ItemId(Doc(r)[m])) /\ ~C2_KnownWhenReached(r, m)
              THEN problematic[r] = <<ItemId(Doc(r)[m])>> /\ existing[r] = <<>>
              ELSE /\ problematic[r] = <<>>
                   /\ existing[r] = IF Truthy(ItemId(Doc(r)[m]))
                                    THEN <<ItemId(Doc(r)[m])>> ELSE <<>>
\* Two valid items around a malformed one with a readable id: both are
\* created and the id is reported.
C2_Witness ==
    \E r \in Requests :
        /\ C2_Batch(r)
        /\ Len(Doc(r)) = 3
        /\ C2_Malformed(r) = {2}
        /\ Len(created[r]) = 2
        /\ Len(problematic[r]) = 1

\* C3 A catalog record is never updated or deleted by ingestion: every step
\* keeps every row of the catalog as it is, and a row it adds carries an id
\* that no row carried.
C3_NeverUpdated ==
    [][/\ \A rec \in catalog : rec \in catalog'
       /\ \A rec \in catalog' \ catalog : rec.id \notin Ids(catalog)]_vars
\* A request has processed an item whose id is in the catalog under other
\* field values, having passed the existence check before the row was there.
C3_Witness ==
    \E r \in Requests : \E k \in 1..Len(outcomes[r]) :
        /\ outcomes[r][k] = "problematic"
        /\ ValidItem(Doc(r)[k])
        /\ RowOf(Doc(r)[k]).id \in Ids(catalog)
        /\ RowOf(Doc(r)[k]) \notin catalog

Count(seq, x) == Cardinality({i \in 1..Len(seq) : seq[i] = x})
OfStatus(seq, st) ==
    LET F[i \in 0..Len(seq)] ==
            IF i = 0 THEN <<>>
            ELSE IF seq[i].status = st THEN Append(F[i - 1], seq[i]) ELSE F[i - 1]
    IN  F[Len(seq)]
IsPrefix(s, t) == Len(s) <= Len(t) /\ \A i \in 1..Len(s) : s[i] = t[i]

\* Request r carried a file that is not well-formed XML and has been answered.
C4_Case(r) == pc[r] = "responded" /\ file[r].given /\ ~file[r].wellformed
\* What holds of that request whatever the broker does: nothing was processed
\* or created, no success notification was sent, and the response is 400
\* with the parser's message.
C4_NothingDone(r) ==
    /\ outcomes[r] = <<>> /\ created[r] = <<>>
    /\ existing[r] = <<>> /\ problematic[r] = <<>>
    /\ catalog = cat0[r]
    /\ OfStatus(queue[r], "notify_success") = <<>>
    /\ OfStatus(rejected[r], "notify_success") = <<>>
    /\ response[r] = [status |-> 400, body |-> [error |-> "syntax error"]]
\* The claim as stated: exactly one failure notification per admin is
\* enqueued.
C4_Original ==
    \A r \in Requests : C4_Case(r) =>
        /\ C4_NothingDone(r)
        /\ queue[r] = [i \in 1..Len(admins) |->
                          FailurePayload(r, admins[i], "syntax error")]
\* C4 as amended: when the document is not well-formed XML, no item is
\* processed, no catalog record is created, no success notification is sent,
\* the response is 400, and exactly one failure notification is sent to each
\* admin, which is enqueued unless the broker refuses it (the refusal is
\* caught and logged, and that admin gets none).
C4_ParseFailure ==
    \A r \in Requests : C4_Case(r) =>
        /\ C4_NothingDone(r)
        /\ Len(queue[r]) + Len(rejected[r]) = Len(admins)
        /\ \A i \in 1..Len(admins) :
              Count(queue[r], FailurePayload(r, admins[i], "syntax error"))
              + Count(rejected[r], FailurePayload(r, admins[i], "syntax error")) = 1
\* A malformed upload answered with two admins, both notified.
C4_Witness ==
    \E r \in Requests :
        /\ C4_Case(r)
        /\ Len(admins) = 2
        /\ Len(queue[r]) = 2

\* C5 Order preservation: each of the three lists holds its entries in the
\* document order of the items that produced them.  outcomes[r][k] is what
\* became of item k, so each list is the document filtered by outcome.
C5_Expected(r, label) ==
    LET d == Doc(r)
        F[i \in 0..Len(outcomes[r])] ==
            IF i = 0 THEN <<>>
            ELSE IF outcomes[r][i] = label
                 THEN Append(F[i - 1], IF label = "created"
                                       THEN Serialize(RowOf(d[i]))
                                       ELSE ItemId(d[i]))
                 ELSE F[i - 1]
    IN  F[Len(outcomes[r])]
C5_OrderPreserved ==
    \A r \in Requests :
        /\ existing[r] = C5_Expected(r, "existing")
        /\ problematic[r] = C5_Expected(r, "problematic")
        /\ created[r] = C5_Expected(r, "created")
\* Two records created from one document, in its order, and a later item
\* reported as existing.
C5_Witness ==
    \E r \in Requests :
        /\ BatchDone(r)
        /\ Len(created[r]) = 2
        /\ created[r][1].id # created[r][2].id
        /\ outcomes[r] = <<"created", "created", "existing">>

\* The success payloads of request r: one for each (admin, created record)
\* pair, admin by admin.
FanOut(r) ==
    LET m == Len(created[r])
    IN  [k \in 1..(Len(admins) * m) |->
            SuccessPayload(r, admins[((k - 1) \div m) + 1], created[r][((k - 1) % m) + 1])]
SuccessQueued(r) == OfStatus(queue[r], "notify_success")
\* notify_admins_for_products was called for request r and is over: it
\* returned, or a send raised out of it.
C6_CallOver(r) == BatchDone(r) /\ pc[r] \in {"notify_failure", "responded"}
C6_Returned(r) == C6_CallOver(r) /\ error[r] = ""
\* The claim as stated: a call with N admins and M created records enqueues
\* exactly N*M success payloads.
C6_Original ==
    \A r \in Requests : C6_CallOver(r) => SuccessQueued(r) = FanOut(r)
\* C6 as amended: the success payloads enqueued are, in order, the first
\* ones of the N*M (admin, created record) pairs taken admin by admin: all
\* N*M of them when the call returns, and only those before the first send
\* the broker refuses when one is refused (the call then raises); with no
\* created record there are none, whatever the existing and problematic
\* lists hold.
C6_SuccessFanOut ==
    \A r \in Requests :
        /\ IsPrefix(SuccessQueued(r), FanOut(r))
        /\ C6_Returned(r) => SuccessQueued(r) = FanOut(r)
        /\ (C6_CallOver(r) /\ error[r] # "") =>
              /\ Len(rejected[r]) >= 1
              /\ rejected[r][1] = FanOut(r)[Len(SuccessQueued(r)) + 1]
        /\ (C6_CallOver(r) /\ created[r] = <<>>) => SuccessQueued(r) = <<>>
\* Two admins and two created records: four payloads; and a call with
\* existing and problematic ids and no created record: no payload.
C6_Witness ==
    /\ Len(admins) = 2
    /\ \E r \in Requests :
          /\ C6_Returned(r)
          /\ Len(created[r]) = 2
          /\ Len(SuccessQueued(r)) = 4
          /\ existing[r] # <<>>

\* notify_failure_to_admins was called for request r and has returned.
C7_Returned(r) == pc[r] = "responded" /\ error[r] # ""
FailureFanOut(r) == [i \in 1..Len(admins) |-> FailurePayload(r, admins[i], error[r])]
\* The claim as stated: one failure payload is enqueued for each admin.
C7_Original ==
    \A r \in Requests : C7_Returned(r) => OfStatus(queue[r], "notify_failure") = FailureFanOut(r)
\* C7 as amended: notify_failure_to_admins sends exactly one failure payload
\* per admin, with status notify_failure and the error string passed in; each
\* is enqueued unless the broker refuses it, and a refusal is caught, so the
\* payloads of the other admins are still sent.
C7_FailureFanOut ==
    \A r \in Requests : C7_Returned(r) =>
        /\ \A i \in 1..Len(admins) :
              Count(queue[r], FailureFanOut(r)[i])
              + Count(rejected[r], FailureFanOut(r)[i]) = 1
        /\ Len(OfStatus(queue[r], "notify_failure"))
           + Len(OfStatus(rejected[r], "notify_failure")) = Len(admins)
        /\ \A i \in 1..Len(queue[r]) :
              queue[r][i].status = "notify_failure" => queue[r][i].error = error[r]
\* The first admin's payload was refused and the second admin's enqueued.
C7_Witness ==
    \E r \in Requests :
        /\ C7_Returned(r)
        /\ Len(admins) = 2
        /\ OfStatus(rejected[r], "notify_failure") = <<FailureFanOut(r)[1]>>
        /\ OfStatus(queue[r], "notify_failure") = <<FailureFanOut(r)[2]>>

\* C8 Per-item errors never escape the ingestor: for a document that parses,
\* upload_products never catches an exception of an item (the only exception
\* it can have caught comes from the dispatcher, after the batch was
\* returned), and handle_uploaded_file goes through every item.
C8_ItemErrorsContained ==
    \A r \in Requests :
        /\ (Parsed(r) /\ error[r] # "") => (error[r] = "broker error" /\ BatchDone(r))
        /\ (Parsed(r) /\ pc[r] \in {"notify", "notify_failure", "responded"}) =>
              /\ BatchDone(r)
              /\ Len(outcomes[r]) = Len(Doc(r))
        /\ error[r] = "syntax error" => ~Parsed(r)
\* A run returned its lists although one item raised in a numeric conversion
\* and another in the INSERT.
C8_Witness ==
    \E r \in Requests :
        /\ BatchDone(r)
        /\ \E k \in 1..Len(Doc(r)) : MapItem(ItemOf(Doc(r)[k])).exc = "ValueError"
        /\ \E k \in 1..Len(Doc(r)) :
              /\ MapItem(ItemOf(Doc(r)[k])).exc = "none"
              /\ outcomes[r][k] \in {"problematic", "unreported"}

\* C9 Notification errors never propagate to the upload response: a request
\* whose document parsed is answered with the success response.
C9_ResponseUnaffected ==
    \A r \in Requests :
        (pc[r] = "responded" /\ Parsed(r)) =>
            response[r] = [status |-> 201, body |-> CreatedBody(r)]

\* The keys under which a response would report the batch.
OutcomeKeys == {"created", "existing", "problematic"}
\* The claim as stated: the response to a document that parsed reports the
\* created count, the existing ids and the problematic ids.
C10_Original ==
    \A r \in Requests :
        (pc[r] = "responded" /\ Parsed(r)) =>
            /\ OutcomeKeys \subseteq DOMAIN response[r].body
            /\ response[r].body.created = Len(created[r])
            /\ response[r].body.existing = existing[r]
            /\ response[r].body.problematic = problematic[r]
\* C10 as amended: no response carries per-item detail.  A document that
\* parsed and whose notifications were all accepted is answered 201 with the
\* fixed message "Products uploaded successfully"; a document that fails to
\* parse is answered 400 with the parser's message alone; every other
\* response is 400 with a single error message.
C10_ResponseShape ==
    \A r \in Requests : pc[r] = "responded" =>
        /\ DOMAIN response[r].body \cap OutcomeKeys = {}
        /\ \/ /\ response[r].status = 201
              /\ response[r].body = [message |-> "Products uploaded successfully"]
              /\ Parsed(r) /\ error[r] = ""
           \/ /\ response[r].status = 400
              /\ DOMAIN response[r].body = {"error"}
              /\ ~Parsed(r) \/ error[r] # ""
        /\ (file[r].given /\ ~Parsed(r)) =>
              response[r] = [status |-> 400, body |-> [error |-> "syntax error"]]
\* A document with created, existing and problematic items answered 201.
C10_Witness ==
    \E r \in Requests :
        /\ pc[r] = "responded" /\ Parsed(r)
        /\ response[r].status = 201
        /\ created[r] # <<>> /\ existing[r] # <<>> /\ problematic[r] # <<>>

\* C11 Check-then-create race between two concurrent uploads.  (a) The
\* catalog never holds two records with one id.  (b) A create that finds the
\* id inserted since the existence check changes nothing in the catalog, is
\* handled inside the item's try/except (upload_products catches nothing)
\* and the loop moves to the next item.  (c) Of the requests in flight at most
\* one created a given id, and when a well-formed item's create failed the id
\* is in the catalog: another upload created it.  (d) Every upload whose
\* document parsed returns its lists with one outcome for each item.
C11_LostRace(r) ==
    /\ pc[r] = "create"
    /\ Truthy(get_text(ItemAt(r).id, NoneT))
    /\ Exists(catalog, get_text(ItemAt(r).id, NoneT))
C11_LoserStep(r) ==
    (C11_LostRace(r) /\ pc'[r] # pc[r]) =>
        /\ catalog' = catalog
        /\ pc'[r] = "check"
        /\ pos'[r] = pos[r] + 1
        /\ error'[r] = "" /\ error[r] = ""
        /\ created'[r] = created[r]
        /\ Len(outcomes'[r]) = Len(outcomes[r]) + 1
C11_OneRecordPerId == \A a, b \in catalog : a.id = b.id => a = b
C11_OneWinner ==
    \A r, q \in Requests : \A k \in 1..Len(outcomes[r]) : \A j \in 1..Len(outcomes[q]) :
        /\ (outcomes[r][k] = "created" /\ outcomes[q][j] = "created"
              /\ ItemId(Doc(r)[k]) = ItemId(Doc(q)[j])) => (r = q /\ k = j)
        /\ (outcomes[r][k] = "problematic" /\ ValidItem(Doc(r)[k])) =>
              /\ Cardinality({rec \in catalog : rec.id = ItemId(Doc(r)[k])}) = 1
        /\ outcomes[r][k] = "created" =>
              /\ Cardinality({rec \in catalog : rec.id = ItemId(Doc(r)[k])}) = 1
C11_BatchReturned ==
    \A r \in Requests :
        /\ (Parsed(r) /\ error[r] # "") => (error[r] = "broker error" /\ BatchDone(r))
        /\ BatchDone(r) => Len(outcomes[r]) = Len(Doc(r))
C11_RaceOneWins ==
    /\ [](C11_OneRecordPerId /\ C11_OneWinner /\ C11_BatchReturned)
    /\ [][\A r \in Requests : C11_LoserStep(r)]_vars
\* Two uploads that both began with id p1 absent: one created it, the other's
\* create failed, and that upload went on to create its next item and
\* returned its lists.
C11_Witness ==
    \E r, q \in Requests :
        /\ r # q
        /\ BatchDone(r) /\ BatchDone(q)
        /\ cat0[r] = {} /\ cat0[q] = {}
        /\ Doc(r) = <<"A1">> /\ outcomes[r] = <<"created">>
        /\ Doc(q) = <<"A2", "B1">> /\ outcomes[q] = <<"problematic", "created">>

\* C12 A create that fails because the id was inserted between the existence
\* check and the create is reported like a pre-detected existing id: the id is
\* in the existing list and not in the problematic list.  A well-formed item
\* can fail in create only for that reason, so each of them is reported as
\* created or as existing.
C12_RaceReportedExisting ==
    \A r \in Requests : \A k \in 1..Len(outcomes[r]) :
        ValidItem(Doc(r)[k]) => outcomes[r][k] \in {"created", "existing"}

\* The messages whose record changed in a step that enqueued nothing: the
\* steps of the worker and of the clock.
Touched(r) ==
    IF Len(tasks'[r]) = Len(tasks[r])
    THEN {k \in 1..Len(tasks[r]) : tasks'[r][k] # tasks[r][k]}
    ELSE {}
Ran(t) == [t EXCEPT !.attempts = @ + 1]

\* C13 Bounded retry of notification delivery.  (a) No message is run more
\* than 1 + max_retries times, and max_retries is 5.  (b) A run whose mail
\* transport raises puts the message back with one more retry while fewer
\* than max_retries retries were made, and drops it once they are used up; a
\* message older than max_age is dropped without a run.  (c) Whatever
\* happens to a message, the response, the catalog and the lists of the
\* request that enqueued it stay as they were.
C13_AttemptsBounded ==
    /\ max_retries = 5
    /\ \A r \in Requests : \A k \in 1..Len(tasks[r]) :
          /\ tasks[r][k].attempts <= 1 + max_retries
          /\ tasks[r][k].retries <= max_retries
          /\ tasks[r][k].state = "queued" => tasks[r][k].attempts = tasks[r][k].retries
C13_MessageStep(r, k) ==
    LET t == tasks[r][k]
        u == tasks'[r][k]
    IN  /\ t.state = "queued"
        /\ \/ u = [t EXCEPT !.expired = TRUE]
           \/ t.expired /\ u = [t EXCEPT !.state = "dropped"]
           \/ ~t.expired /\ u = [Ran(t) EXCEPT !.state = "sent", !.delivered = @ + 1]
           \/ ~t.expired /\ t.retries < max_retries
                /\ u = [Ran(t) EXCEPT !.retries = @ + 1]
           \/ ~t.expired /\ t.retries = max_retries
                /\ u = [Ran(t) EXCEPT !.state = "dropped"]
        /\ response' = response /\ catalog' = catalog /\ pc' = pc
        /\ existing' = existing /\ problematic' = problematic /\ created' = created
C13_BoundedRetry ==
    /\ []C13_AttemptsBounded
    /\ [][\A r \in Requests : \A k \in Touched(r) : C13_MessageStep(r, k)]_vars
\* A message was dropped after 1 + max_retries failed runs, and the uploader
\* holds the 201 response given before.
C13_Witness ==
    \E r \in Requests : \E k \in 1..Len(tasks[r]) :
        /\ tasks[r][k].state = "dropped"
        /\ ~tasks[r][k].expired
        /\ tasks[r][k].attempts = 1 + max_retries
        /\ tasks[r][k].delivered = 0
        /\ response[r] = [status |-> 201, body |-> CreatedBody(r)]

\* The most messages one request can enqueue.
MessageSlots == 1..(MaxAdmins * (MaxItems + 1))
Waiting(r, k) == k <= Len(tasks[r]) /\ tasks[r][k].state = "queued"
Terminal(r, k) == k <= Len(tasks[r]) /\ tasks[r][k].state \in {"sent", "dropped"}

\* C14 At-least-once delivery with eventual resolution.  (a) A message
\* marked sent was accepted by the mail transport in its last run, and one
\* the transport accepted is marked sent: the admin got the mail.  (b) A
\* message is dropped only when it is older than max_age or when each of its
\* 1 + max_retries runs failed.  (c) Under a fair worker every enqueued
\* message is eventually sent or dropped.
C14_Resolution ==
    \A r \in Requests : \A k \in 1..Len(tasks[r]) :
        LET t == tasks[r][k]
        IN  /\ t.state \in {"queued", "sent", "dropped"}
            /\ t.state = "sent" <=> t.delivered >= 1
            /\ t.state = "dropped" =>
                  /\ t.delivered = 0
                  /\ t.expired \/ (t.retries = max_retries /\ t.attempts = 1 + max_retries)
C14_AtLeastOnce ==
    /\ []C14_Resolution
    /\ \A r \in Requests : \A k \in MessageSlots : Waiting(r, k) ~> Terminal(r, k)
\* A message that failed twice and was delivered by its third run, and
\* another that was dropped.
C14_Witness ==
    \E r \in Requests : \E k, j \in 1..Len(tasks[r]) :
        /\ tasks[r][k].state = "sent"
        /\ tasks[r][k].attempts = 3
        /\ tasks[r][k].delivered = 1
        /\ tasks[r][j].state = "dropped"

\* What the numeric texts of an item are, read off the XML alone.  A price
\* reads as a number when its first whitespace-separated token is a float
\* literal (a trailing currency code is allowed); a quantity when the whole
\* text is one integer literal.
HasText(element) == element.present /\ element.hasText
PriceUnreadable(item) ==
    HasText(item.price) /\ (item.price.text = <<>> \/ Head(item.price.text) \notin FloatLiterals)
QuantityUnreadable(item) ==
    HasText(item.quantity) /\ (Len(item.quantity.text) # 1 \/ Head(item.quantity.text) \notin IntLiterals)
\* Nothing but the optional sale_price may be missing from the item.
C15_Sound(item) ==
    /\ HasText(item.id) /\ HasText(item.title) /\ HasText(item.gender)
    /\ HasText(item.price) /\ ~PriceUnreadable(item)
    /\ ~QuantityUnreadable(item)
    /\ ~HasText(item.sale_price)
C15_Record(id) == CHOOSE rec \in catalog : rec.id = id

\* C15 Numeric strictness at item level.  (a) An item whose price or quantity
\* text is present and does not read as a number is never created; when the
\* mapper is run on it (its id is not in the catalog) the step inserts
\* nothing and handles the failure as a per-item failure: the id goes to the
\* problematic list and the loop moves on.  (b) An item that lacks only the
\* optional sale_price is created when its id is new, and the record's
\* sale_price is null.
C15_Outcomes ==
    \A r \in Requests : \A k \in 1..Len(outcomes[r]) :
        LET item == ItemOf(Doc(r)[k])
        IN  /\ (PriceUnreadable(item) \/ QuantityUnreadable(item)) =>
                  outcomes[r][k] \in {"problematic", "existing"}
            /\ C15_Sound(item) =>
                  /\ outcomes[r][k] \in {"created", "existing"}
                  /\ Exists(catalog, ItemId(Doc(r)[k]))
            /\ (C15_Sound(item) /\ outcomes[r][k] = "created") =>
                  C15_Record(ItemId(Doc(r)[k])).sale_price = NoneT
C15_MapperStep(r) ==
    (/\ pc[r] = "create" /\ pc'[r] # "create"
     /\ PriceUnreadable(ItemAt(r)) \/ QuantityUnreadable(ItemAt(r))) =>
        /\ catalog' = catalog
        /\ created'[r] = created[r]
        /\ problematic'[r] = Append(problematic[r], get_text(ItemAt(r).id, NoneT))
        /\ pc'[r] = "check" /\ pos'[r] = pos[r] + 1
        /\ error'[r] = ""
C16_SaysYes(item) ==
    /\ HasText(item.adult)
    /\ item.adult.text \in {<<"yes">>, <<"Yes">>, <<"YES">>, <<"yEs">>}

\* C16 Boolean coercion of adult.  Every item that differs from a well-formed
\* one only in its adult element is created when its id is new, whatever the
\* element holds, and the record's adult field is true exactly when the
\* element's text is yes in some mix of cases: it is false for an absent
\* element, an element without text and any other text.
C16_AdultCoercion ==
    /\ \A r \in Requests : \A k \in 1..Len(outcomes[r]) :
          /\ outcomes[r][k] \in {"created", "existing"}
          /\ Exists(catalog, ItemId(Doc(r)[k]))
    /\ \A name \in AdultItems :
          Exists(catalog, ItemId(name)) =>
              C15_Record(ItemId(name)).adult = C16_SaysYes(ItemOf(name))
\* Records created from "Yes", from "no", from an element without text and
\* from an item without the element.
C16_Witness ==
    /\ \A name \in {"Adult_Yes", "Adult_YES", "Adult_no", "Adult_empty", "B1", "Adult_yes_please"} :
          Exists(catalog, ItemId(name))
    /\ C15_Record(ItemId("Adult_Yes")).adult
    /\ ~C15_Record(ItemId("Adult_empty")).adult

\* C17 An upload request without a file is answered 400 with the error "No
\* file provided" and has no other effect: the ingestor is not invoked (no
\* item is processed, no list is filled, no exception is caught), the
\* catalog is as the request found it, and no success or failure
\* notification is sent.  The step that answers it changes nothing but the
\* request's own record.
C17_Rejected(r) ==
    /\ response[r] = [status |-> 400, body |-> [error |-> "No file provided"]]
    /\ pc[r] = "responded"
    /\ catalog = cat0[r]
    /\ outcomes[r] = <<>> /\ pos[r] = 1 /\ error[r] = ""
    /\ existing[r] = <<>> /\ problematic[r] = <<>> /\ created[r] = <<>>
    /\ queue[r] = <<>> /\ rejected[r] = <<>> /\ tasks[r] = <<>>
C17_ArrivalStep(r) ==
    (pc[r] = "idle" /\ pc'[r] # "idle" /\ ~file'[r].given) =>
        /\ pc'[r] = "responded"
        /\ catalog' = catalog /\ queue' = queue /\ rejected' = rejected /\ tasks' = tasks
C17_NoFile ==
    /\ [](\A r \in Requests : (pc[r] # "idle" /\ ~file[r].given) => C17_Rejected(r))
    /\ [][\A r \in Requests : C17_ArrivalStep(r)]_vars
\* A request without a file answered while the catalog holds records.
C17_Witness ==
    \E r \in Requests :
        /\ pc[r] = "responded" /\ ~file[r].given
        /\ response[r].status = 400
        /\ catalog # {}
        /\ Len(admins) = 2

\* C18 Token session lifecycle.  (a) A login with valid credentials answers
\* 200 with the user's token, the one the user already had when there was
\* one.  (b) A successful logout deletes the token it was made with.  (c) A
\* key whose token was deleted is nobody's token afterwards, also after its
\* user logs in again, and every request to a protected endpoint that bears
\* it is answered 401.  (d) A request to a protected endpoint without
\* credentials is answered 401, and one answered 200 bore the key of a token
\* that existed.
C18_LoginStep ==
    (reply'.endpoint = "login" /\ authenticate(reply'.user, PasswordOf(reply'.user))
        /\ reply'.status = 200) =>
        /\ reply'.token # 0
        /\ reply'.token = tokens'[reply'.user]
        /\ tokens[reply'.user] # 0 => (reply'.token = tokens[reply'.user] /\ tokens' = tokens)
C18_LogoutStep ==
    (reply'.endpoint = "logout" /\ reply'.status = 200) =>
        /\ tokens[reply'.user] = reply'.key
        /\ tokens'[reply'.user] = 0
        /\ reply'.key \in revoked'
C18_ProtectedStep ==
    reply'.endpoint \in {"logout", "protected"} =>
        /\ (reply'.key \in revoked \/ reply'.key = 0) => reply'.status = 401
        /\ reply'.status = 200 => \E u \in Users : tokens[u] = reply'.key
        /\ reply'.status \in {200, 401}
C18_DeletedForGood ==
    /\ \A key \in revoked : \A u \in Users : tokens[u] # key
    /\ \A key \in revoked : ~IsAuthenticated(tokens, key)
    /\ ~IsAuthenticated(tokens, 0)
C18_TokenLifecycle ==
    /\ []C18_DeletedForGood
    /\ [][C18_LoginStep /\ C18_LogoutStep /\ C18_ProtectedStep]_vars
\* A user logged in, logged out and logged in again; the protected view has
\* just refused the key of the first token.
C18_Witness ==
    /\ reply.endpoint = "protected" /\ reply.status = 401
    /\ reply.key \in revoked
    /\ \E u \in Users : tokens[u] # 0 /\ tokens[u] > reply.key
    /\ Cardinality(revoked) = 1

\* Items k < j of the document of request r carry the same readable id, the
\* id was not in the catalog when the run began, and item k was created.
C19_Duplicate(r, k, j) ==
    /\ k < j /\ j <= Len(outcomes[r])
    /\ outcomes[r][k] = "created"
    /\ ItemId(Doc(r)[k]) = ItemId(Doc(r)[j])
    /\ Truthy(ItemId(Doc(r)[k]))
    /\ ItemId(Doc(r)[k]) \notin Ids(cat0[r])
\* The claim as stated: the second item's create fails and its id is
\* reported problematic.
C19_Original ==
    \A r \in Requests : \A k, j \in 1..Len(outcomes[r]) :
        C19_Duplicate(r, k, j) =>
            /\ outcomes[r][j] = "problematic"
            /\ Count(problematic[r], ItemId(Doc(r)[j])) >= 1
\* C19 as amended: when two items of one document share an id that is new
\* when ingestion starts and the first is created, the second is caught by
\* the existence check, which queries the catalog anew for every item: no
\* create is attempted for it, and its id is reported in the existing list,
\* not in the problematic list, whatever its other fields hold.
C19_IntraBatchDuplicate ==
    \A r \in Requests : \A k, j \in 1..Len(outcomes[r]) :
        C19_Duplicate(r, k, j) =>
            /\ outcomes[r][j] = "existing"
            /\ Count(existing[r], ItemId(Doc(r)[j])) >= 1
            /\ Count(problematic[r], ItemId(Doc(r)[j]))
                 = Cardinality({i \in 1..Len(outcomes[r]) :
                       /\ ItemId(Doc(r)[i]) = ItemId(Doc(r)[j])
                       /\ outcomes[r][i] = "problematic"})
            /\ \A i \in 1..Len(outcomes[r]) :
                  (ItemId(Doc(r)[i]) = ItemId(Doc(r)[j]) /\ outcomes[r][i] = "problematic")
                      => i < k
\* A document whose first two items share a new id, with different fields:
\* the first was created and the second reported existing.
C19_Witness ==
    \E r \in Requests :
        /\ BatchDone(r)
        /\ C19_Duplicate(r, 1, 2)
        /\ Doc(r)[1] # Doc(r)[2]
        /\ existing[r] = <<ItemId(Doc(r)[2])>>
        /\ problematic[r] = <<>>

\* The payloads addressed to an admin without an email address.
C20_Unaddressed(seq) == {k \in 1..Len(seq) : seq[k].admin_email = 0}
\* The claim as stated: the payload of an admin without an email address is
\* skipped, never handed to the broker.
C20_Original ==
    \A r \in Requests :
        C20_Unaddressed(queue[r]) = {} /\ C20_Unaddressed(rejected[r]) = {}
\* C20 as amended: the dispatcher does not look at the admin's email.  For an
\* admin without an email address it builds and sends the payload like any
\* other, with an empty admin_email; it raises no error of its own (the only
\* error of a dispatch is a send the broker refused), and the payloads of
\* the other admins are sent too: when no send was refused, every (admin,
\* created record) pair, or every admin after a failure, has exactly one
\* payload in the queue.
C20_BlankEmailSent ==
    \A r \in Requests :
        /\ error[r] \in {"", "syntax error", "broker error"}
        /\ error[r] = "broker error" => rejected[r] # <<>>
        /\ (pc[r] = "responded" /\ file[r].given /\ rejected[r] = <<>>) =>
              IF Parsed(r)
              THEN /\ response[r].status = 201
                   /\ Len(queue[r]) = Len(admins) * Len(created[r])
                   /\ \A i \in 1..Len(admins) : \A j \in 1..Len(created[r]) :
                         Count(queue[r], SuccessPayload(r, admins[i], created[r][j])) = 1
              ELSE /\ Len(queue[r]) = Len(admins)
                   /\ \A i \in 1..Len(admins) :
                         Count(queue[r], FailurePayload(r, admins[i], error[r])) = 1
\* The first of two admins has no email address: a success payload with an
\* empty admin_email is in the queue beside the other admin's.
C20_Witness ==
    \E r \in Requests :
        /\ pc[r] = "responded" /\ Parsed(r)
        /\ Len(admins) = 2 /\ admins[1] = 0
        /\ Len(created[r]) = 1
        /\ Len(queue[r]) = 2
        /\ queue[r][1].admin_email = 0 /\ queue[r][2].admin_email # 0

(* ------------------------------- C21 ----------------------------------- *)

Returned(fn) == call.fn = fn /\ ret.exc # "pending"
\* The node of the call is an element whose text is a non-empty string.
NodeHasText == call.element.present /\ call.element.hasText /\ ~call.element.empty
Numeric(tok) == tok \in FloatLiterals

C22_TotalAccessors ==
    /\ Returned("get_text") =>
          /\ ret.exc = "none"
          /\ ret.val = IF call.element.present /\ call.element.hasText
                       THEN IF call.element.empty THEN EmptyStr
                            ELSE Some(call.element.text)
                       ELSE call.default
    /\ Returned("get_attribute") =>
          /\ ret.exc = "none"
          /\ ret.val = IF call.element.present
                          /\ call.attribute \in DOMAIN call.element.attrib
                       THEN Some(call.element.attrib[call.attribute])
                       ELSE call.default

\* C22 as stated: a node without non-empty text yields the default.
C22_Original ==
    Returned("get_text") =>
        ret.val = IF NodeHasText THEN Some(call.element.text) ELSE call.default

\* get_text was called on an element whose text is the empty string, with a
\* default at hand, and returned the empty string.
C22_Witness ==
    /\ Returned("get_text")
    /\ call.element = EmptyText
    /\ call.default = Some(<<"d1">>)
    /\ ret = Val(EmptyStr)

(* ------------------------------- C23 ----------------------------------- *)

\* What a count element asks for, read off the XML alone: unreadable when
\* its text is anything but one integer literal, 0 when the element is
\* absent or has no text.
CountUnreadable(element) ==
    /\ HasText(element) /\ ~element.empty
    /\ (Len(element.text) # 1 \/ Head(element.text) \notin IntLiterals)
CountAsked(element) ==
    IF HasText(element) /\ ~element.empty THEN ParseInt(Head(element.text)) ELSE 0
RecordOf(id) == CHOOSE rec \in catalog : rec.id = id

\* C23 Integer fields.  Each item of these documents has an id of its own and
\* is well formed but for its quantity and additional_images_count.  (a) When
\* either element has text that is not an integer the whole item fails: it
\* is reported problematic and the catalog never holds a record with its
\* id.  (b) Otherwise the item is created (or found existing on a later
\* upload) and its record holds, for each count, 0 when the element is
\* absent or has no text and the parsed integer when the text is one.
C23_IntegerFields ==
    \A r \in Requests : \A k \in 1..Len(outcomes[r]) :
        LET item == ItemOf(Doc(r)[k])
            id == ItemId(Doc(r)[k])
        IN  IF CountUnreadable(item.quantity)
               \/ CountUnreadable(item.additional_images_count)
            THEN outcomes[r][k] = "problematic" /\ ~Exists(catalog, id)
            ELSE /\ outcomes[r][k] \in {"created", "existing"}
                 /\ Exists(catalog, id)
                 /\ RecordOf(id).quantity = CountAsked(item.quantity)
                 /\ RecordOf(id).additional_images_count =
                        CountAsked(item.additional_images_count)

\* The item with a decimal quantity was just refused, while the catalog
\* holds a quantity of 0 read from an absent element, one of 0 read from an
\* element without text, and an additional_images_count of 5.
C23_Witness ==
    \E r \in Requests :
        /\ BatchDone(r)
        /\ Doc(r) = <<"Qty_decimal">> /\ outcomes[r] = <<"problematic">>
        /\ Exists(catalog, ItemId("Qty_absent"))
        /\ RecordOf(ItemId("Qty_absent")).quantity = 0
        /\ Exists(catalog, ItemId("Qty_none"))
        /\ RecordOf(ItemId("Qty_none")).quantity = 0
        /\ Exists(catalog, ItemId("Img_5"))
        /\ RecordOf(ItemId("Img_5")).additional_images_count = 5
        /\ ~Exists(catalog, ItemId("Img_abc"))

(* ------------------------------- C24 ----------------------------------- *)

\* The item request r is at has no readable id.
NoIdAt(r) == pos[r] <= Len(Doc(r)) /\ ~Truthy(get_text(ItemAt(r).id, NoneT))

\* C24 Items without a readable id.  (a) Such an item is never persisted and
\* never reported: no record of the catalog and no entry of the existing,
\* problematic and created lists is without an id, and the item's outcome
\* is that it appears in none of the lists.  (b) The step that maps and
\* creates it fails, leaves the catalog and the three lists as they were,
\* raises nothing to upload_products and moves on to the next item; the
\* existence check before it appends nothing either.
C24_Silent ==
    \A r \in Requests :
        /\ \A rec \in catalog : Truthy(rec.id)
        /\ \A i \in 1..Len(existing[r]) : Truthy(existing[r][i])
        /\ \A i \in 1..Len(problematic[r]) : Truthy(problematic[r][i])
        /\ \A i \in 1..Len(created[r]) : Truthy(created[r][i].id)
        /\ \A k \in 1..Len(outcomes[r]) :
              ~Truthy(ItemId(Doc(r)[k])) => outcomes[r][k] = "unreported"
C24_Step(r) ==
    /\ (pc[r] = "check" /\ NoIdAt(r) /\ pc'[r] # pc[r]) =>
          /\ pc'[r] = "create"
          /\ <<catalog, existing, problematic, created, pos>>' =
                 <<catalog, existing, problematic, created, pos>>
    /\ (pc[r] = "create" /\ NoIdAt(r) /\ pc'[r] # pc[r]) =>
          /\ catalog' = catalog
          /\ <<existing[r], problematic[r], created[r]>>' =
                 <<existing[r], problematic[r], created[r]>>
          /\ error'[r] = ""
          /\ pc'[r] = "check" /\ pos'[r] = pos[r] + 1
C24_UnreadableId ==
    /\ []C24_Silent
    /\ [][\A r \in Requests : C24_Step(r)]_vars

\* A document with an item without an id that maps but cannot be inserted,
\* one that does not even map, and a well-formed item was ingested: the
\* first two are in no list and not in the catalog, the third was created.
C24_Witness ==
    \E r \in Requests :
        /\ BatchDone(r)
        /\ Doc(r) = <<"NoId", "NoIdBadPrice", "A1">>
        /\ MapItem(ItemOf("NoId")).exc = "none"
        /\ MapItem(ItemOf("NoIdBadPrice")).exc = "ValueError"
        /\ outcomes[r] = <<"unreported", "unreported", "created">>
        /\ existing[r] = <<>> /\ problematic[r] = <<>>
        /\ Len(created[r]) = 1
        /\ Ids(catalog) = {ItemId("A1")}

(* ------------------------------- C25 ----------------------------------- *)

GenderChoices == {Some(<<"male">>), Some(<<"female">>), Some(<<"unisex">>)}

\* C25 Gender domain: every record ingestion persists has a gender among
\* male, female and unisex, and an item whose gender text is outside the set
\* is never created.
C25_GenderDomain ==
    /\ \A rec \in catalog : rec.gender \in GenderChoices
    /\ \A r \in Requests : \A k \in 1..Len(outcomes[r]) :
          get_text(ItemOf(Doc(r)[k]).gender, NoneT) \notin GenderChoices =>
              outcomes[r][k] # "created"

(* ------------------------------- C26 ----------------------------------- *)

\* C26 Quantity domain: every record ingestion persists has a quantity of at
\* least 0, and an item whose quantity text is a negative integer is never
\* created.
C26_QuantityDomain ==
    /\ \A rec \in catalog : rec.quantity >= 0
    /\ \A r \in Requests : \A k \in 1..Len(outcomes[r]) :
          LET q == ItemOf(Doc(r)[k]).quantity
          IN  (~CountUnreadable(q) /\ CountAsked(q) < 0) => outcomes[r][k] # "created"

(* ------------------------------- C27 ----------------------------------- *)

\* The readable ids the items of request r's document carry.
DocIds(r) == {id \in {ItemId(Doc(r)[k]) : k \in 1..Len(Doc(r))} : Truthy(id)}
\* How often id is reported in the three lists of request r.
Reports(r, id) ==
    Count(existing[r], id) + Count(problematic[r], id)
    + Cardinality({i \in 1..Len(created[r]) : created[r][i].id = id})
\* How many of the items processed so far carry id.
Occurrences(r, id) ==
    Cardinality({k \in 1..Len(outcomes[r]) : ItemId(Doc(r)[k]) = id})

\* C27 Reports per id.  The lists hold one entry per item, not one per id: an
\* id is reported exactly as many times as items of the document carry it,
\* so an id shared by several items is reported several times; of these
\* reports at most one is in the created list.
C27_OncePerItem ==
    \A r \in Requests : \A id \in DocIds(r) :
        /\ Reports(r, id) = Occurrences(r, id)
        /\ Cardinality({i \in 1..Len(created[r]) : created[r][i].id = id}) <= 1

\* C27 as stated: no id is reported twice across the three lists.
C27_Original ==
    \A r \in Requests : \A id \in DocIds(r) : Reports(r, id) <= 1

\* A document with two items of one id was ingested into a catalog without
\* that id: the id is in the created list and in the existing list.
C27_Witness ==
    \E r \in Requests :
        /\ BatchDone(r)
        /\ Doc(r) = <<"A1", "A2">>
        /\ ItemId("A1") = ItemId("A2")
        /\ Len(created[r]) = 1 /\ created[r][1].id = ItemId("A1")
        /\ existing[r] = <<ItemId("A1")>>
        /\ Reports(r, ItemId("A1")) = 2

(* ------------------------------- C28 ----------------------------------- *)

\* C28 Failure notifications imply an untouched catalog: a request for which
\* a failure notification was enqueued created no record and enqueued no
\* success notification.
C28_FailureMeansUntouched ==
    \A r \in Requests :
        OfStatus(queue[r], "notify_failure") # <<>> =>
            /\ created[r] = <<>>
            /\ catalog = cat0[r]
            /\ SuccessQueued(r) = <<>>

(* ------------------------------- C29 ----------------------------------- *)

\* The items among the first n of request r's document whose id is readable.
Readable(r, n) == {k \in 1..n : Truthy(ItemId(Doc(r)[k]))}

\* C29 Outcome conservation.  While a document that parsed is ingested, each
\* item processed so far has exactly one outcome: the lengths of the
\* existing, problematic and created lists add up to the number of processed
\* items with a readable id, an item with a readable id is in one of the
\* lists and an item without one is in none; when the lists are returned
\* every item of the document has been processed.
C29_Conservation ==
    \A r \in Requests :
        Parsed(r) =>
            /\ Len(existing[r]) + Len(problematic[r]) + Len(created[r])
                   = Cardinality(Readable(r, Len(outcomes[r])))
            /\ \A k \in 1..Len(outcomes[r]) :
                  IF k \in Readable(r, Len(outcomes[r]))
                  THEN outcomes[r][k] \in {"existing", "problematic", "created"}
                  ELSE outcomes[r][k] = "unreported"
            /\ Len(existing[r]) = Cardinality({k \in 1..Len(outcomes[r]) : outcomes[r][k] = "existing"})
            /\ Len(problematic[r]) = Cardinality({k \in 1..Len(outcomes[r]) : outcomes[r][k] = "problematic"})
            /\ Len(created[r]) = Cardinality({k \in 1..Len(outcomes[r]) : outcomes[r][k] = "created"})
            /\ BatchDone(r) => Len(outcomes[r]) = Len(Doc(r))

\* A document of three items, one of them without an id, was ingested: one
\* item is in each of the problematic and created lists, none in the
\* existing list, and the lengths add up to two.
C29_Witness ==
    \E r \in Requests :
        /\ BatchDone(r)
        /\ Doc(r) = <<"BadPrice", "NoId", "B1">>
        /\ Len(existing[r]) = 0 /\ Len(problematic[r]) = 1 /\ Len(created[r]) = 1
        /\ outcomes[r] = <<"problematic", "unreported", "created">>

(* ------------------------------- C30 ----------------------------------- *)

CreatedIds(r) == {created[r][i].id : i \in 1..Len(created[r])}

\* C30 Created list matches catalog growth.  With uploads served one at a
\* time, throughout a run and when it returns, the ids of the records in the
\* created list are exactly the ids that are in the catalog now and were not
\* when the run began: nothing is persisted without being reported created
\* and nothing is reported created without being persisted.  The rows the
\* catalog had before the run are still there, unchanged.
C30_CreatedIsGrowth ==
    \A r \in Requests :
        Parsed(r) =>
            /\ CreatedIds(r) = Ids(catalog) \ Ids(cat0[r])
            /\ cat0[r] \subseteq catalog
            /\ Cardinality(CreatedIds(r)) = Len(created[r])

\* A run over a catalog that held one of the document's ids has returned:
\* of the document's three items one was existing, one failed and one was
\* created, and the catalog grew by the created id alone.
C30_Witness ==
    \E r \in Requests :
        /\ BatchDone(r)
        /\ Doc(r) = <<"A2", "BadPrice", "B1">>
        /\ Ids(cat0[r]) = {ItemId("A2")}
        /\ CreatedIds(r) = {ItemId("B1")}
        /\ Ids(catalog) = {ItemId("A2"), ItemId("B1")}

====
